---- MODULE Spec2Model ----
(***************************************************************************)
(* analyze_comparison_results.py: one run of the script, from loading the  *)
(* CSV to the final "Analysis complete" message.                           *)
(*                                                                         *)
(* Text (column names, cell contents, labels) is a sequence of one-        *)
(* character strings, so that stripping and numeric parsing are computed   *)
(* on the characters.  A cell of a data frame is a record [t, s, n]:       *)
(* t = "str" with the text s, t = "num" with the number n, or t = "nan"    *)
(* (missing).  A frame is [columns, dtypes, rows]; a row keeps the pandas  *)
(* index label it got when the file was read.                              *)
(***************************************************************************)
EXTENDS Integers, Sequences, FiniteSets

(* ------------------------------ text ---------------------------------- *)

\* 'Algorithm'
Algorithm == <<"A","l","g","o","r","i","t","h","m">>
\* 'NumVMs'
NumVMs == <<"N","u","m","V","M","s">>
\* 'NumHosts'
NumHosts == <<"N","u","m","H","o","s","t","s">>
\* 'Landscape'
Landscape == <<"L","a","n","d","s","c","a","p","e">>
\* 'ScalingFactor'
ScalingFactor == <<"S","c","a","l","i","n","g","F","a","c","t","o","r">>
\* 'SLA_Violations'
SLA_Violations == <<"S","L","A","_","V","i","o","l","a","t","i","o","n","s">>
\* 'Failed_Allocations'
Failed_Allocations == <<"F","a","i","l","e","d","_","A","l","l","o","c","a",
    "t","i","o","n","s">>
\* 'Avg_ResponseTime'
Avg_ResponseTime == <<"A","v","g","_","R","e","s","p","o","n","s","e","T","i",
    "m","e">>
\* 'Avg_TurnaroundTime'
Avg_TurnaroundTime == <<"A","v","g","_","T","u","r","n","a","r","o","u","n",
    "d","T","i","m","e">>
\* 'Makespan'
Makespan == <<"M","a","k","e","s","p","a","n">>
\* 'Throughput'
Throughput == <<"T","h","r","o","u","g","h","p","u","t">>
\* 'Avg_Host_CPU_Util(%)'
Avg_Host_CPU_Util_pct == <<"A","v","g","_","H","o","s","t","_","C","P","U","_",
    "U","t","i","l","(","%",")">>
\* 'StdDev_Host_CPU_Util(%)'
StdDev_Host_CPU_Util_pct == <<"S","t","d","D","e","v","_","H","o","s","t","_",
    "C","P","U","_","U","t","i","l","(","%",")">>
\* 'Avg_QoS_Index'
Avg_QoS_Index == <<"A","v","g","_","Q","o","S","_","I","n","d","e","x">>
\* 'Landscape_Desc'
Landscape_Desc == <<"L","a","n","d","s","c","a","p","e","_","D","e","s","c">>
\* 'SLA-PSO'
target_algorithm == <<"S","L","A","-","P","S","O">>
\* 'Homogeneous Small'
Homogeneous_Small == <<"H","o","m","o","g","e","n","e","o","u","s"," ","S","m",
    "a","l","l">>
\* 'Homogeneous Medium'
Homogeneous_Medium == <<"H","o","m","o","g","e","n","e","o","u","s"," ","M",
    "e","d","i","u","m">>
\* 'Homogeneous Large'
Homogeneous_Large == <<"H","o","m","o","g","e","n","e","o","u","s"," ","L","a",
    "r","g","e">>
\* 'Heterogeneous'
Heterogeneous == <<"H","e","t","e","r","o","g","e","n","e","o","u","s">>
\* 'Unknown'
Unknown == <<"U","n","k","n","o","w","n">>

\* Characters str.strip() removes at both ends.
Whitespace == {" ", "\t"}

Digits == {"0", "1", "2", "3", "4", "5", "6", "7", "8", "9"}

DigitValue(c) ==
    CASE c = "0" -> 0 [] c = "1" -> 1 [] c = "2" -> 2 [] c = "3" -> 3
      [] c = "4" -> 4 [] c = "5" -> 5 [] c = "6" -> 6 [] c = "7" -> 7
      [] c = "8" -> 8 [] c = "9" -> 9

RECURSIVE lstrip(_)
lstrip(s) ==
    IF s # <<>> /\ Head(s) \in Whitespace THEN lstrip(Tail(s)) ELSE s

RECURSIVE rstrip(_)
rstrip(s) ==
    IF s # <<>> /\ s[Len(s)] \in Whitespace
    THEN rstrip(SubSeq(s, 1, Len(s) - 1))
    ELSE s
\* The strip that forgets the trailing side: str.lstrip().
str_lstrip_only(s) == lstrip(s)

\* str.strip(): leading and trailing whitespace removed, the inside kept.
str_strip(s) == rstrip(lstrip(s))

\* Text of an unsigned decimal numeral (the numeric cells of the inputs).
IsNumeral(s) == s # <<>> /\ \A i \in 1..Len(s) : s[i] \in Digits

RECURSIVE NumeralValue(_)
NumeralValue(s) ==
    IF s = <<>> THEN 0
    ELSE 10 * NumeralValue(SubSeq(s, 1, Len(s) - 1)) + DigitValue(s[Len(s)])

(* ------------------------------ cells --------------------------------- *)

NaN == [t |-> "nan", s |-> <<>>, n |-> 0]
Str(s) == [t |-> "str", s |-> s, n |-> 0]
Num(n) == [t |-> "num", s |-> <<>>, n |-> n]

isna(c) == c.t = "nan"

\* errors='ignore': what does not parse is left as it is.
to_numeric_ignore(c) ==
    IF c.t = "str" /\ IsNumeral(c.s) THEN Num(NumeralValue(c.s)) ELSE c

\* pd.to_numeric(value, errors='coerce') on one cell: a string that is not a
\* number becomes NaN, nothing raises.
to_numeric(c) ==
    IF c.t = "str"
    THEN IF IsNumeral(c.s) THEN Num(NumeralValue(c.s)) ELSE NaN
    ELSE c

(* ------------------------------ frames -------------------------------- *)

Object == [kind |-> "object", categories |-> <<>>]
Numeric == [kind |-> "numeric", categories |-> <<>>]
Category(cats) == [kind |-> "category", categories |-> cats]

EmptyFrame == [columns |-> <<>>, dtypes |-> <<>>, rows |-> <<>>]

HasColumn(f, name) == \E j \in 1..Len(f.columns) : f.columns[j] = name

ColumnIndex(f, name) == CHOOSE j \in 1..Len(f.columns) : f.columns[j] = name

\* row[name] of frame f.
Cell(f, row, name) == row.cells[ColumnIndex(f, name)]

RECURSIVE MaskRows(_, _, _)
MaskRows(rows, mask, i) ==
    IF i > Len(rows) THEN <<>>
    ELSE (IF mask[i] THEN <<rows[i]>> ELSE <<>>) \o MaskRows(rows, mask, i + 1)

\* f[mask]: the rows of f whose mask entry is true, in order, as a new frame.
Getitem(f, mask) == [f EXCEPT !.rows = MaskRows(f.rows, mask, 1)]

\* DataFrame.empty
empty(f) == Len(f.rows) = 0 \/ Len(f.columns) = 0

(* ------------------------------ loading ------------------------------- *)

\* pd.read_csv(CSV_FILENAME, sep=','): the header row gives the column names as
\* written; an empty field is NaN; a column whose fields are all numbers (or
\* empty) is numeric, any other column holds strings (object).  A file with a
\* header and no rows gives object columns.
ColumnIsNumeric(csv, j) ==
    /\ Len(csv.rows) > 0
    /\ \A i \in 1..Len(csv.rows) :
          csv.rows[i][j] = <<>> \/ IsNumeral(csv.rows[i][j])

ReadCell(csv, i, j) ==
    LET raw == csv.rows[i][j] IN
    IF raw = <<>> THEN NaN
    ELSE IF ColumnIsNumeric(csv, j) THEN Num(NumeralValue(raw))
    ELSE Str(raw)

read_csv(csv) ==
    [columns |-> csv.header,
     dtypes  |-> [j \in 1..Len(csv.header) |->
                    IF ColumnIsNumeric(csv, j) THEN Numeric ELSE Object],
     rows    |-> [i \in 1..Len(csv.rows) |->
                    [index |-> i - 1,
                     cells |-> [j \in 1..Len(csv.header) |-> ReadCell(csv, i, j)]]]]

(* ------------------------------ cleaning ------------------------------ *)

\* df.columns = df.columns.str.strip()
strip_columns(f) ==
    [f EXCEPT !.columns = [j \in 1..Len(f.columns) |-> str_strip(f.columns[j])]]

numeric_cols ==
    <<NumVMs, NumHosts, Landscape, ScalingFactor, SLA_Violations,
      Failed_Allocations, Avg_ResponseTime, Avg_TurnaroundTime, Makespan,
      Throughput, Avg_Host_CPU_Util_pct, StdDev_Host_CPU_Util_pct, Avg_QoS_Index>>

InSeq(x, s) == \E k \in 1..Len(s) : s[k] = x

\* for col in numeric_cols: if col in df.columns: df[col] = pd.to_numeric(...)
coerce_numeric(f) ==
    [f EXCEPT
       !.dtypes = [j \in 1..Len(f.columns) |->
                     IF InSeq(f.columns[j], numeric_cols) THEN Numeric
                     ELSE f.dtypes[j]],
       !.rows = [i \in 1..Len(f.rows) |->
                   [f.rows[i] EXCEPT
                      !.cells = [j \in 1..Len(f.columns) |->
                                   IF InSeq(f.columns[j], numeric_cols)
                                   THEN to_numeric(f.rows[i].cells[j])
                                   ELSE f.rows[i].cells[j]]]]]
dropna_subset ==
    <<Algorithm, NumVMs, NumHosts, Landscape, StdDev_Host_CPU_Util_pct>>

\* dropna raises KeyError when a label of subset is not a column.
dropna_raises(f) == \E k \in 1..Len(dropna_subset) : ~HasColumn(f, dropna_subset[k])

\* df.dropna(subset=[...], inplace=True): a row stays when none of the subset
\* cells is missing.
dropna(f) ==
    Getitem(f, [i \in 1..Len(f.rows) |->
                  \A k \in 1..Len(dropna_subset) :
                      ~isna(Cell(f, f.rows[i], dropna_subset[k]))])

\* Series.str exists only for a column of strings: a numeric Algorithm column
\* raises AttributeError.
str_accessor_raises(f) == f.dtypes[ColumnIndex(f, Algorithm)].kind # "object"
\* A match on the end of the name: .str.strip().str.endswith('PSO')
algorithm_matches_suffix(c) ==
    /\ c.t = "str"
    /\ LET s == str_strip(c.s) IN
          Len(s) >= 3 /\ SubSeq(s, Len(s) - 2, Len(s)) = <<"P","S","O">>

\* One entry of df['Algorithm'].str.strip() == target_algorithm
algorithm_matches(c) == c.t = "str" /\ str_strip(c.s) = target_algorithm

\* df[df['Algorithm'].str.strip() == target_algorithm].copy()
filter_algorithm(f) ==
    Getitem(f, [i \in 1..Len(f.rows) |->
                  algorithm_matches(Cell(f, f.rows[i], Algorithm))])

\* landscape_map.get(code), None when the code is no key.
landscape_map(n) ==
    CASE n = 1 -> Str(Homogeneous_Small)
      [] n = 2 -> Str(Homogeneous_Medium)
      [] n = 3 -> Str(Homogeneous_Large)
      [] n = 4 -> Str(Heterogeneous)
      [] OTHER -> NaN

fillna(c, s) == IF isna(c) THEN Str(s) ELSE c

\* sla_pso_df['Landscape_Desc'] = sla_pso_df['Landscape'].map(landscape_map)
\*                                                       .fillna('Unknown')
add_landscape_desc(f) ==
    IF HasColumn(f, Landscape)
    THEN [columns |-> Append(f.columns, Landscape_Desc),
          dtypes  |-> Append(f.dtypes, Object),
          rows    |-> [i \in 1..Len(f.rows) |->
                         LET c == Cell(f, f.rows[i], Landscape) IN
                         [f.rows[i] EXCEPT
                            !.cells = Append(@,
                               fillna(IF c.t = "num" THEN landscape_map(c.n)
                                      ELSE NaN, Unknown))]]]
    ELSE f

(* ----------------------------- aggregation ---------------------------- *)

\* One entry of the mask  f[name] == k
equals(f, row, name, k) ==
    LET c == Cell(f, row, name) IN c.t = "num" /\ c.n = k

RECURSIVE gcd(_, _)
gcd(a, b) == IF b = 0 THEN a ELSE gcd(b, a % b)

\* The mean total / count as a fraction in lowest terms; no value, no mean.
Fraction(total, count) ==
    IF count = 0 THEN [num |-> 0, den |-> 0]
    ELSE LET g == gcd(total, count) IN
         [num |-> total \div g, den |-> count \div g]

RECURSIVE SumCells(_, _, _)
\* Sum of the non-missing cells of column j over rows.
SumCells(rows, j, i) ==
    IF i > Len(rows) THEN 0
    ELSE (IF rows[i].cells[j].t = "num" THEN rows[i].cells[j].n ELSE 0)
         + SumCells(rows, j, i + 1)

CountCells(rows, j) ==
    Cardinality({i \in 1..Len(rows) : rows[i].cells[j].t = "num"})
\* 'sum' in place of 'mean'.
mean_as_sum(f, name) ==
    LET j == ColumnIndex(f, name) IN
    Fraction(SumCells(f.rows, j, 1), IF CountCells(f.rows, j) = 0 THEN 0 ELSE 1)

\* Series.mean() of column name of f (missing values skipped).
mean(f, name) ==
    LET j == ColumnIndex(f, name) IN
    Fraction(SumCells(f.rows, j, 1), CountCells(f.rows, j))

RECURSIVE Ascending(_)
\* The numbers of S in increasing order (groupby sorts its keys).
Ascending(S) ==
    IF S = {} THEN <<>>
    ELSE LET m == CHOOSE x \in S : \A y \in S : x <= y IN
         <<m>> \o Ascending(S \ {m})

\* data.groupby([by]).agg(Avg=(value, 'mean')).reset_index(): one row per
\* distinct key (rows with a missing key are left out), keys ascending.
groupby_mean(f, by, value) ==
    LET keys == Ascending({Cell(f, f.rows[i], by).n :
                             i \in {i \in 1..Len(f.rows) :
                                      Cell(f, f.rows[i], by).t = "num"}})
    IN [k \in 1..Len(keys) |->
          [key |-> keys[k],
           mean |-> mean(Getitem(f, [i \in 1..Len(f.rows) |->
                                       equals(f, f.rows[i], by, keys[k])]),
                         value)]]

fixed_hosts_vm_scaling == 5
fixed_landscape_vm_scaling == 4

\* sla_pso_df[(NumHosts == 5) & (Landscape == 4)].copy()
vm_scaling_select(f) ==
    Getitem(f, [i \in 1..Len(f.rows) |->
                  /\ equals(f, f.rows[i], NumHosts, fixed_hosts_vm_scaling)
                  /\ equals(f, f.rows[i], Landscape, fixed_landscape_vm_scaling)])

fixed_vms_host_scaling == 30
fixed_landscape_host_scaling == 4

\* sla_pso_df[(NumVMs == 30) & (Landscape == 4)].copy()
host_scaling_select(f) ==
    Getitem(f, [i \in 1..Len(f.rows) |->
                  /\ equals(f, f.rows[i], NumVMs, fixed_vms_host_scaling)
                  /\ equals(f, f.rows[i], Landscape, fixed_landscape_host_scaling)])

fixed_vms_landscape == 30
fixed_hosts_landscape == 5

\* sla_pso_df[(NumVMs == 30) & (NumHosts == 5)].copy()
landscape_select(f) ==
    Getitem(f, [i \in 1..Len(f.rows) |->
                  /\ equals(f, f.rows[i], NumVMs, fixed_vms_landscape)
                  /\ equals(f, f.rows[i], NumHosts, fixed_hosts_landscape)])

landscape_order ==
    <<Homogeneous_Small, Homogeneous_Medium, Homogeneous_Large, Heterogeneous>>

\* data['Landscape_Desc'].unique()
unique_labels(f) ==
    {Cell(f, f.rows[i], Landscape_Desc).s :
       i \in {i \in 1..Len(f.rows) : Cell(f, f.rows[i], Landscape_Desc).t = "str"}}
\* categories=landscape_order: all four labels, present or not.
landscape_categories_all(f) == landscape_order

\* [l for l in landscape_order if l in data['Landscape_Desc'].unique()]
landscape_categories(f) ==
    SelectSeq(landscape_order, LAMBDA l : l \in unique_labels(f))

\* data['Landscape_Desc'] = pd.Categorical(data['Landscape_Desc'],
\*     categories=cats, ordered=True): a value that is no category is NaN.
set_categorical(f, cats) ==
    LET j == ColumnIndex(f, Landscape_Desc) IN
    [f EXCEPT
       !.dtypes[j] = Category(cats),
       !.rows = [i \in 1..Len(f.rows) |->
                   [f.rows[i] EXCEPT
                      !.cells[j] = IF @.t = "str" /\ InSeq(@.s, cats)
                                   THEN @ ELSE NaN]]]

RECURSIVE RowsByCategory(_, _, _)
\* The rows of f category by category, from the k-th category on.
RowsByCategory(f, cats, k) ==
    IF k > Len(cats) THEN <<>>
    ELSE MaskRows(f.rows,
                  [i \in 1..Len(f.rows) |->
                     Cell(f, f.rows[i], Landscape_Desc) = Str(cats[k])], 1)
         \o RowsByCategory(f, cats, k + 1)

\* data.sort_values('Landscape_Desc'): in the order of the categories, rows
\* without a category last; rows of one category keep their order (the sort
\* of frames this small is an insertion sort).
sort_values(f) ==
    LET cats == f.dtypes[ColumnIndex(f, Landscape_Desc)].categories IN
    [f EXCEPT
       !.rows = RowsByCategory(f, cats, 1)
                \o MaskRows(f.rows,
                            [i \in 1..Len(f.rows) |->
                               isna(Cell(f, f.rows[i], Landscape_Desc))], 1)]
\* The categorical column and the sort applied to sla_pso_df itself instead
\* of to the copy.
landscape_prepare_in_place(f) ==
    LET data == landscape_select(f) IN
    [sla_pso_df |->
        IF empty(data) THEN f
        ELSE sort_values(set_categorical(f, landscape_categories(data))),
     landscape_variation_data |->
        IF empty(data) THEN data
        ELSE sort_values(set_categorical(data, landscape_categories(data)))]

\* Lines 158-168 on the two frames they touch: the slice is a copy, so the
\* categorical column and the sort change the copy and not sla_pso_df.
landscape_prepare(f) ==
    LET data == landscape_select(f) IN
    [sla_pso_df |-> f,
     landscape_variation_data |->
        IF empty(data) THEN data
        ELSE sort_values(set_categorical(data, landscape_categories(data)))]

\* data.groupby('Landscape_Desc', observed=False)[value].mean().reset_index():
\* one row per category, in category order.
groupby_category_mean(f, value) ==
    LET cats == f.dtypes[ColumnIndex(f, Landscape_Desc)].categories IN
    [k \in 1..Len(cats) |->
       [key |-> cats[k],
        mean |-> mean(Getitem(f, [i \in 1..Len(f.rows) |->
                    Cell(f, f.rows[i], Landscape_Desc) = Str(cats[k])]),
                      value)]]

(* ------------------------------ inputs -------------------------------- *)

\* Largest number of data rows of a generated input file with the plain
\* header, and with one of the other headers.
MaxRows == 2

MaxRowsOtherHeader == 1

\* The columns of the input files, in file order: the five required ones and
\* Makespan for the numeric columns that no analysis reads.
FileColumns ==
    <<Algorithm, NumVMs, NumHosts, Landscape, StdDev_Host_CPU_Util_pct, Makespan>>

SLA_PSO_lead == <<" ">> \o target_algorithm
SLA_PSO_trail == target_algorithm \o <<" ">>
SLA_underscore_PSO == <<"S","L","A","_","P","S","O">>
PSO == <<"P","S","O">>
abc == <<"a","b","c">>

\* Rows of an input file as text fields, in the order of FileColumns.
RowPool ==
    { <<target_algorithm,   <<"3","0">>, <<"5">>, <<"4">>, <<"1">>, <<"9">>>>,
      <<target_algorithm,   <<"3","0">>, <<"5">>, <<"4">>, <<"2">>, <<"9">>>>,
      <<SLA_PSO_lead,       <<"1","0">>, <<"5">>, <<"4">>, <<"4">>, <<"9">>>>,
      <<SLA_PSO_trail,      <<"3","0">>, <<"8">>, <<"4">>, <<"3">>, <<"9">>>>,
      <<target_algorithm,   <<"3","0">>, <<"5">>, <<"1">>, <<"5">>, <<"9">>>>,
      <<target_algorithm,   <<"3","0">>, <<"5">>, <<"7">>, <<"6">>, <<"9">>>>,
      <<SLA_underscore_PSO, <<"3","0">>, <<"5">>, <<"4">>, <<"7">>, <<"9">>>>,
      <<PSO,                <<"3","0">>, <<"5">>, <<"4">>, <<"8">>, <<"9">>>>,
      <<<<>>,               <<"3","0">>, <<"5">>, <<"4">>, <<"1">>, <<"9">>>>,
      <<<<"7">>,            <<"3","0">>, <<"5">>, <<"4">>, <<"1">>, <<"9">>>>,
      <<target_algorithm,   abc,         <<"5">>, <<"4">>, <<"1">>, <<"9">>>>,
      <<target_algorithm,   <<"3","0">>, <<>>,    <<"4">>, <<"1">>, <<"9">>>>,
      <<target_algorithm,   <<"3","0">>, <<"5">>, abc,     <<"1">>, <<"9">>>>,
      <<target_algorithm,   <<"3","0">>, <<"5">>, <<"4">>, abc,     <<"9">>>>,
      <<target_algorithm,   <<"3","0">>, <<"5">>, <<"4">>, <<"3">>, abc>> }

\* The six-row file of the end-to-end example: SLA-PSO, 5 hosts, landscape
\* 4, VMs 10,10,20,20,30,30 with values 1..6.
ExampleRows ==
    << <<target_algorithm, <<"1","0">>, <<"5">>, <<"4">>, <<"1">>, <<"9">>>>,
       <<target_algorithm, <<"1","0">>, <<"5">>, <<"4">>, <<"2">>, <<"9">>>>,
       <<target_algorithm, <<"2","0">>, <<"5">>, <<"4">>, <<"3">>, <<"9">>>>,
       <<target_algorithm, <<"2","0">>, <<"5">>, <<"4">>, <<"4">>, <<"9">>>>,
       <<target_algorithm, <<"3","0">>, <<"5">>, <<"4">>, <<"5">>, <<"9">>>>,
       <<target_algorithm, <<"3","0">>, <<"5">>, <<"4">>, <<"6">>, <<"9">>>> >>

RowLists == UNION {[1..n -> RowPool] : n \in 0..MaxRows} \cup {ExampleRows}

ShortRowLists == UNION {[1..n -> RowPool] : n \in 0..MaxRowsOtherHeader}

\* Which of FileColumns a file has, and whether its header names are padded
\* with blanks.
PlainHeader == [keep |-> <<1, 2, 3, 4, 5, 6>>, padded |-> FALSE]

OtherHeaders ==
    { [keep |-> <<1, 2, 3, 4, 5, 6>>, padded |-> TRUE],
      [keep |-> <<1, 2, 3, 4, 5>>,    padded |-> FALSE],
      [keep |-> <<2, 3, 4, 5, 6>>,    padded |-> FALSE],
      [keep |-> <<1, 2, 3, 4, 6>>,    padded |-> FALSE] }

HeaderText(h) ==
    [k \in 1..Len(h.keep) |->
       IF h.padded THEN <<" ">> \o FileColumns[h.keep[k]] \o <<" ">>
       ELSE FileColumns[h.keep[k]]]

File(h, rows) ==
    [status |-> "ok",
     header |-> HeaderText(h),
     rows   |-> [i \in 1..Len(rows) |->
                   [k \in 1..Len(h.keep) |-> rows[i][h.keep[k]]]]]

\* The input files: readable ones, a missing one and one that does not parse.
Files ==
    {File(PlainHeader, rows) : rows \in RowLists}
    \cup {File(h, rows) : h \in OtherHeaders, rows \in ShortRowLists}
    \cup {[status |-> s, header |-> <<>>, rows |-> <<>>] :
            s \in {"not_found", "unparseable"}}

(* ------------------------------ state --------------------------------- *)

VARIABLES
    pc,                       \* the statement the script is at
    csv,                      \* the file at CSV_FILENAME
    df,
    sla_pso_df,
    vm_scaling_data,
    vm_scaling_grouped,
    host_scaling_data,
    host_scaling_grouped,
    landscape_variation_data,
    landscape_grouped,        \* the groupby passed to the landscape line plot
    plot,                     \* the plotting call in progress
    calls,                    \* the plotting calls made so far
    figures,                  \* number of open pyplot figures
    files,                    \* plot files written to OUTPUT_DIR
    stdout,                   \* messages printed
    exc                       \* the exception that ended the run, if any

vars ==
    <<pc, csv, df, sla_pso_df, vm_scaling_data, vm_scaling_grouped,
      host_scaling_data, host_scaling_grouped, landscape_variation_data,
      landscape_grouped, plot, calls, figures, files, stdout, exc>>

frames ==
    <<df, sla_pso_df, vm_scaling_data, vm_scaling_grouped, host_scaling_data,
      host_scaling_grouped, landscape_variation_data, landscape_grouped>>

plotting == <<plot, calls, figures, files>>

\* print(...)
Emit(msg, arg) == stdout' = Append(stdout, [msg |-> msg, arg |-> arg])

Init ==
    /\ pc = "load"
    /\ csv \in Files
    /\ df = EmptyFrame
    /\ sla_pso_df = EmptyFrame
    /\ vm_scaling_data = EmptyFrame
    /\ vm_scaling_grouped = <<>>
    /\ host_scaling_data = EmptyFrame
    /\ host_scaling_grouped = <<>>
    /\ landscape_variation_data = EmptyFrame
    /\ landscape_grouped = <<>>
    /\ plot = "none"
    /\ calls = <<>>
    /\ figures = 0
    /\ files = {}
    /\ stdout = <<>>
    /\ exc = "none"

(* ------------------------------ the run ------------------------------- *)

\* exit(): the run ends here.
Exit == pc' = "exited" /\ exc' = "SystemExit"

\* An exception no statement catches ends the run with a traceback.
Raise(e) == pc' = "raised" /\ exc' = e

\* Lines 17-25: load the file or print why not and exit.
LoadData ==
    /\ pc = "load"
    /\ IF csv.status = "ok"
       THEN /\ df' = read_csv(csv)
            /\ Emit("Successfully loaded", "")
            /\ pc' = "columns"
            /\ UNCHANGED exc
       ELSE /\ Emit(IF csv.status = "not_found" THEN "Error: not found"
                    ELSE "An error occurred while loading the CSV", "")
            /\ Exit
            /\ UNCHANGED df
    /\ UNCHANGED <<csv, sla_pso_df, vm_scaling_data, vm_scaling_grouped,
                   host_scaling_data, host_scaling_grouped,
                   landscape_variation_data, landscape_grouped, plotting>>

\* Lines 29-37: strip the column names, then require the Algorithm column.
CheckAlgorithmColumn ==
    /\ pc = "columns"
    /\ df' = strip_columns(df)
    /\ IF HasColumn(df', Algorithm)
       THEN /\ Emit("Unique algorithms", "")
            /\ pc' = "coerce"
            /\ UNCHANGED exc
       ELSE /\ Emit("Error: 'Algorithm' column not found", "")
            /\ Exit
    /\ UNCHANGED <<csv, sla_pso_df, vm_scaling_data, vm_scaling_grouped,
                   host_scaling_data, host_scaling_grouped,
                   landscape_variation_data, landscape_grouped, plotting>>

\* Lines 40-48
CoerceNumeric ==
    /\ pc = "coerce"
    /\ df' = coerce_numeric(df)
    /\ pc' = "dropna"
    /\ UNCHANGED <<csv, sla_pso_df, vm_scaling_data, vm_scaling_grouped,
                   host_scaling_data, host_scaling_grouped,
                   landscape_variation_data, landscape_grouped, plotting,
                   stdout, exc>>

\* Line 51
DropNa ==
    /\ pc = "dropna"
    /\ IF dropna_raises(df)
       THEN Raise("KeyError") /\ UNCHANGED df
       ELSE df' = dropna(df) /\ pc' = "filter" /\ UNCHANGED exc
    /\ UNCHANGED <<csv, sla_pso_df, vm_scaling_data, vm_scaling_grouped,
                   host_scaling_data, host_scaling_grouped,
                   landscape_variation_data, landscape_grouped, plotting,
                   stdout>>

\* Lines 56-57
FilterAlgorithm ==
    /\ pc = "filter"
    /\ IF str_accessor_raises(df)
       THEN Raise("AttributeError") /\ UNCHANGED sla_pso_df
       ELSE sla_pso_df' = filter_algorithm(df) /\ pc' = "describe"
            /\ UNCHANGED exc
    /\ UNCHANGED <<csv, df, vm_scaling_data, vm_scaling_grouped,
                   host_scaling_data, host_scaling_grouped,
                   landscape_variation_data, landscape_grouped, plotting,
                   stdout>>

\* Lines 60-67: the Landscape_Desc column and the summary of the filtered table.
DescribeLandscape ==
    /\ pc = "describe"
    /\ sla_pso_df' = add_landscape_desc(sla_pso_df)
    /\ Emit("Data after cleaning and filtering", "")
    /\ pc' = "vm_scaling"
    /\ UNCHANGED <<csv, df, vm_scaling_data, vm_scaling_grouped,
                   host_scaling_data, host_scaling_grouped,
                   landscape_variation_data, landscape_grouped, plotting, exc>>

\* A call of plot_line_single, plot_bar_single or plot_boxplot_single.
Call(p) == pc' = "figure" /\ plot' = p /\ calls' = Append(calls, p)

\* Lines 122-135
VmScaling ==
    /\ pc = "vm_scaling"
    /\ vm_scaling_data' = vm_scaling_select(sla_pso_df)
    /\ IF ~empty(vm_scaling_data')
       THEN /\ vm_scaling_grouped' =
                 groupby_mean(vm_scaling_data', NumVMs, StdDev_Host_CPU_Util_pct)
            /\ Call("vm_scaling_line")
            /\ UNCHANGED stdout
       ELSE /\ Emit("No data found", "VM Scaling")
            /\ pc' = "host_scaling"
            /\ UNCHANGED <<vm_scaling_grouped, plot, calls>>
    /\ UNCHANGED <<csv, df, sla_pso_df, host_scaling_data, host_scaling_grouped,
                   landscape_variation_data, landscape_grouped, figures, files,
                   exc>>

\* Lines 139-152
HostScaling ==
    /\ pc = "host_scaling"
    /\ host_scaling_data' = host_scaling_select(sla_pso_df)
    /\ IF ~empty(host_scaling_data')
       THEN /\ host_scaling_grouped' =
                 groupby_mean(host_scaling_data', NumHosts,
                              StdDev_Host_CPU_Util_pct)
            /\ Call("host_scaling_line")
            /\ UNCHANGED stdout
       ELSE /\ Emit("No data found", "Host Scaling")
            /\ pc' = "landscape"
            /\ UNCHANGED <<host_scaling_grouped, plot, calls>>
    /\ UNCHANGED <<csv, df, sla_pso_df, vm_scaling_data, vm_scaling_grouped,
                   landscape_variation_data, landscape_grouped, figures, files,
                   exc>>

\* Lines 156-174 and 182-183: the slice, its categories and order, then the
\* bar chart; or the notice that there is no data.
LandscapeVariation ==
    /\ pc = "landscape"
    /\ LET r == landscape_prepare(sla_pso_df) IN
         /\ sla_pso_df' = r.sla_pso_df
         /\ landscape_variation_data' = r.landscape_variation_data
    /\ IF ~empty(landscape_variation_data')
       THEN Call("landscape_bar") /\ UNCHANGED stdout
       ELSE /\ Emit("No data found", "Landscape Variation")
            /\ pc' = "complete"
            /\ UNCHANGED <<plot, calls>>
    /\ UNCHANGED <<csv, df, vm_scaling_data, vm_scaling_grouped,
                   host_scaling_data, host_scaling_grouped, landscape_grouped,
                   figures, files, exc>>

\* Lines 176-178
LandscapeCurve ==
    /\ pc = "landscape_curve"
    /\ landscape_grouped' =
          groupby_category_mean(landscape_variation_data,
                                StdDev_Host_CPU_Util_pct)
    /\ Call("landscape_line")
    /\ UNCHANGED <<csv, df, sla_pso_df, vm_scaling_data, vm_scaling_grouped,
                   host_scaling_data, host_scaling_grouped,
                   landscape_variation_data, figures, files, stdout, exc>>

\* Lines 180-181
LandscapeBoxplot ==
    /\ pc = "landscape_boxplot"
    /\ Call("landscape_boxplot")
    /\ UNCHANGED <<csv, frames, figures, files, stdout, exc>>

\* os.path.join(OUTPUT_DIR, f"{filename_prefix}_{y_axis...}_{kind}.png")
plot_path(p) ==
    CASE p = "vm_scaling_line" ->
           "sla_pso_vm_scaling_stddev_cpu_util_Avg_StdDev_Host_CPU_Util_Pct_line.png"
      [] p = "host_scaling_line" ->
           "sla_pso_host_scaling_stddev_cpu_util_Avg_StdDev_Host_CPU_Util_Pct_line.png"
      [] p = "landscape_bar" ->
           "sla_pso_landscape_stddev_cpu_util_StdDev_Host_CPU_Utilpct_bar.png"
      [] p = "landscape_line" ->
           "sla_pso_landscape_stddev_cpu_util_curve_StdDev_Host_CPU_Utilpct_line.png"
      [] p = "landscape_boxplot" ->
           "sla_pso_landscape_stddev_cpu_util_boxplot_StdDev_Host_CPU_Utilpct_boxplot.png"

\* The statement after the plotting call p.
Return(p) ==
    CASE p = "vm_scaling_line" -> "host_scaling"
      [] p = "host_scaling_line" -> "landscape"
      [] p = "landscape_bar" -> "landscape_curve"
      [] p = "landscape_line" -> "landscape_boxplot"
      [] p = "landscape_boxplot" -> "complete"

\* plt.figure(figsize=(10, 6)): a new figure is open.
PlotFigure ==
    /\ pc = "figure"
    /\ figures' = figures + 1
    /\ pc' = "draw"
    /\ UNCHANGED <<csv, frames, plot, calls, files, stdout, exc>>

\* The drawing calls and plt.savefig(plot_path): the file is written and the
\* path printed.
PlotSave ==
    /\ pc = "draw"
    /\ files' = files \cup {plot_path(plot)}
    /\ Emit("Plot saved", plot_path(plot))
    /\ pc' = "close"
    /\ UNCHANGED <<csv, frames, plot, calls, figures, exc>>

\* A drawing call or savefig raises (data the library rejects, a file that
\* cannot be written): nothing in the plotting function or at its call
\* catches it.
PlotRaise ==
    /\ pc = "draw"
    /\ Raise("RenderError")
    /\ UNCHANGED <<csv, frames, plotting, stdout>>

\* plt.close(), then back to the caller.
PlotClose ==
    /\ pc = "close"
    /\ figures' = figures - 1
    /\ pc' = Return(plot)
    /\ plot' = "none"
    /\ UNCHANGED <<csv, frames, calls, files, stdout, exc>>

\* Line 185
Complete ==
    /\ pc = "complete"
    /\ Emit("Analysis complete", "")
    /\ pc' = "done"
    /\ UNCHANGED <<csv, frames, plotting, exc>>

Next ==
    \/ LoadData
    \/ CheckAlgorithmColumn
    \/ CoerceNumeric
    \/ DropNa
    \/ FilterAlgorithm
    \/ DescribeLandscape
    \/ VmScaling
    \/ HostScaling
    \/ LandscapeVariation
    \/ LandscapeCurve
    \/ LandscapeBoxplot
    \/ PlotFigure
    \/ PlotSave
    \/ PlotRaise
    \/ PlotClose
    \/ Complete

Spec == Init /\ [][Next]_vars

(* ------------------------------ properties ---------------------------- *)

\* The run is past line 57: sla_pso_df holds the filtered table.
Filtered ==
    /\ pc \notin {"load", "columns", "coerce", "dropna", "filter", "exited"}
    /\ exc \notin {"KeyError", "AttributeError"}

\* The run is past line 62: the filtered table is complete.
Created == Filtered /\ pc # "describe"

Called(p) == \E k \in 1..Len(calls) : calls[k] = p

Printed(msg, arg) ==
    \E k \in 1..Len(stdout) : stdout[k] = [msg |-> msg, arg |-> arg]

\* The text s is 'SLA-PSO' with nothing but whitespace before and after it.
PaddedTarget(s) ==
    \E p \in 1..Len(s) :
       /\ p + Len(target_algorithm) - 1 <= Len(s)
       /\ SubSeq(s, p, p + Len(target_algorithm) - 1) = target_algorithm
       /\ \A i \in 1..Len(s) :
             (i < p \/ i > p + Len(target_algorithm) - 1) => s[i] \in {" ", "\t"}

\* The header text h is the column name with blanks around it.
PaddedName(h, name) ==
    \E p \in 1..Len(h) :
       /\ p + Len(name) - 1 <= Len(h)
       /\ SubSeq(h, p, p + Len(name) - 1) = name
       /\ \A i \in 1..Len(h) : (i < p \/ i > p + Len(name) - 1) => h[i] = " "

\* The field of column name in the line of the file that row came from.
RawField(row, name) ==
    csv.rows[row.index + 1][CHOOSE j \in 1..Len(csv.header) :
                               PaddedName(csv.header[j], name)]

RECURSIVE SumOver(_, _)
SumOver(S, v) ==
    IF S = {} THEN 0
    ELSE LET x == CHOOSE x \in S : TRUE IN v[x] + SumOver(S \ {x}, v)

\* C1: the run ends early only when the file is not found, does not parse,
\* or has no Algorithm column; for every other input it reaches the final
\* "Analysis complete" step.
C1_EarlyExitOnlyForThreeCauses ==
    pc \in {"exited", "raised"} =>
       \/ csv.status \in {"not_found", "unparseable"}
       \/ ~\E j \in 1..Len(csv.header) : PaddedName(csv.header[j], Algorithm)

\* C2: a chart rendering that fails does not end the run: the later charts
\* are still rendered and the run reaches the completion step.
C2_RenderFailureNotFatal == exc = "RenderError" => pc # "raised"

\* C3: an analysis whose slice has no rows writes no file and prints "No
\* data found", and the run goes on through the later analyses to the
\* completion step: a run that skipped an analysis does not end in an
\* exception.
C3_SkippedAnalysisRunCompletes ==
    \A a \in {"VM Scaling", "Host Scaling", "Landscape Variation"} :
       Printed("No data found", a) => pc # "raised"

\* The frames the analyses read: the filtered table and the three slices.
AnalysisFrames ==
    {sla_pso_df, vm_scaling_data, host_scaling_data, landscape_variation_data}

RequiredNumeric == {NumVMs, NumHosts, Landscape, StdDev_Host_CPU_Util_pct}

\* C4: after the numeric conversion every field of a numeric column that is
\* not a number is missing and nothing was raised; every row of the filtered
\* table and of the three slices has a value in Algorithm, NumVMs, NumHosts,
\* Landscape and StdDev_Host_CPU_Util(%), and comes from a line of the file
\* whose fields in these columns were present and (for the four numbers)
\* numeric.
C4_CoercedAndRequiredPresent ==
    /\ pc = "dropna" =>
          /\ exc = "none"
          /\ Len(df.rows) = Len(csv.rows)
          /\ \A i \in 1..Len(df.rows) : \A j \in 1..Len(df.columns) :
                InSeq(df.columns[j], numeric_cols) =>
                   LET raw == csv.rows[i][j]
                       c == df.rows[i].cells[j]
                   IN IF raw # <<>> /\ \A k \in 1..Len(raw) : raw[k] \in Digits
                      THEN c.t = "num"
                      ELSE c.t = "nan"
    /\ Filtered =>
          \A f \in AnalysisFrames : \A i \in 1..Len(f.rows) :
             /\ Cell(f, f.rows[i], Algorithm).t = "str"
             /\ RawField(f.rows[i], Algorithm) # <<>>
             /\ \A name \in RequiredNumeric :
                   /\ Cell(f, f.rows[i], name).t = "num"
                   /\ LET raw == RawField(f.rows[i], name) IN
                         raw # <<>> /\ \A k \in 1..Len(raw) : raw[k] \in Digits

\* C4 witness: a file with a non-numeric required field in one line and a
\* line that is kept, once the analyses have run.
C4_Witness ==
    /\ pc = "done"
    /\ Len(sla_pso_df.rows) = 1
    /\ Len(csv.rows) = 2
    /\ \E i \in 1..2 : \E j \in 2..5 : csv.rows[i][j] = abc

Labels(f) == {f.rows[i].index : i \in 1..Len(f.rows)}

Values(name) ==
    [i \in 1..Len(sla_pso_df.rows) |->
       Cell(sla_pso_df, sla_pso_df.rows[i], name).n]

\* grouped has one row per distinct key among the rows S of the filtered
\* table, and that row's value is the arithmetic mean of StdDev over the
\* rows of S with that key.
IsMeanByKey(grouped, S, key) ==
    /\ {grouped[k].key : k \in 1..Len(grouped)} = {key[i] : i \in S}
    /\ Len(grouped) = Cardinality({key[i] : i \in S})
    /\ \A k \in 1..Len(grouped) :
          LET G == {i \in S : key[i] = grouped[k].key} IN
          /\ grouped[k].mean.den > 0
          /\ grouped[k].mean.num * Cardinality(G) =
                grouped[k].mean.den * SumOver(G, Values(StdDev_Host_CPU_Util_pct))

ExampleFile == File(PlainHeader, ExampleRows)

\* C7: the VM-scaling aggregate has exactly one row per distinct NumVMs
\* among the filtered rows with NumHosts = 5 and Landscape = 4, holding the
\* mean of StdDev_Host_CPU_Util(%) over exactly those rows; the example file
\* gives (10, 1.5), (20, 3.5), (30, 5.5).  The host-scaling aggregate is the
\* same by NumHosts over the rows with NumVMs = 30 and Landscape = 4.
C7_AggregatesAreGroupMeans ==
    /\ Called("vm_scaling_line") =>
          IsMeanByKey(vm_scaling_grouped,
                      {i \in 1..Len(sla_pso_df.rows) :
                         Values(NumHosts)[i] = 5 /\ Values(Landscape)[i] = 4},
                      Values(NumVMs))
    /\ Called("host_scaling_line") =>
          IsMeanByKey(host_scaling_grouped,
                      {i \in 1..Len(sla_pso_df.rows) :
                         Values(NumVMs)[i] = 30 /\ Values(Landscape)[i] = 4},
                      Values(NumHosts))
    /\ (csv = ExampleFile /\ Called("vm_scaling_line")) =>
          vm_scaling_grouped =
             << [key |-> 10, mean |-> [num |-> 3, den |-> 2]],
                [key |-> 20, mean |-> [num |-> 7, den |-> 2]],
                [key |-> 30, mean |-> [num |-> 11, den |-> 2]] >>

\* C7 witness: the example file, both aggregates computed.
C7_Witness ==
    /\ csv = ExampleFile
    /\ Called("vm_scaling_line")
    /\ Called("host_scaling_line")
    /\ Len(vm_scaling_grouped) = 3

\* C8: at most one figure is open at any time, none is open when a plotting
\* function starts, and none stays open after a rendering step has failed.
C8_FigureAlwaysReleased ==
    /\ figures <= 1
    /\ pc = "figure" => figures = 0
    /\ pc = "raised" => figures = 0

\* The figure of a failed rendering is still open when the run has ended.
C8_FigureLeftOpen == pc = "raised" /\ exc = "RenderError" /\ figures = 1

\* The rows of the filtered table in the landscape slice, by row number.
LandscapeSlice ==
    {i \in 1..Len(sla_pso_df.rows) :
       Values(NumVMs)[i] = 30 /\ Values(NumHosts)[i] = 5}

LabelOf(i) == Cell(sla_pso_df, sla_pso_df.rows[i], Landscape_Desc).s

\* The category list of the landscape slice.
Categories ==
    landscape_variation_data.dtypes[
        ColumnIndex(landscape_variation_data, Landscape_Desc)].categories

LandscapePlots == {"landscape_bar", "landscape_line", "landscape_boxplot"}

\* C9: in the landscape analysis the category list is the canonical order
\* restricted to the labels that occur in the slice; 'Unknown' is no
\* category, a row with an unmapped code has no category and enters no group
\* mean; a slice that is not empty is plotted and not skipped, also when all
\* its rows have unmapped codes and the category list is empty.
C9_LandscapeCategories ==
    /\ Called("landscape_bar") =>
          /\ LandscapeSlice # {}
          /\ ~Printed("No data found", "Landscape Variation")
          /\ Labels(landscape_variation_data) =
                {sla_pso_df.rows[i].index : i \in LandscapeSlice}
          /\ {Categories[k] : k \in 1..Len(Categories)} =
                {LabelOf(i) : i \in LandscapeSlice}
                \cap {landscape_order[k] : k \in 1..Len(landscape_order)}
          /\ \A a, b \in 1..Len(Categories) :
                a < b => \E x, y \in 1..Len(landscape_order) :
                            /\ x < y
                            /\ landscape_order[x] = Categories[a]
                            /\ landscape_order[y] = Categories[b]
          /\ ~InSeq(Unknown, Categories)
          /\ \A i \in 1..Len(landscape_variation_data.rows) :
                LET row == landscape_variation_data.rows[i]
                    code == Cell(landscape_variation_data, row, Landscape).n
                    c == Cell(landscape_variation_data, row, Landscape_Desc)
                IN IF code \in 1..4 THEN c = Str(landscape_order[code])
                   ELSE c.t = "nan"
    /\ Called("landscape_line") =>
          /\ [k \in 1..Len(landscape_grouped) |-> landscape_grouped[k].key]
                = Categories
          /\ IsMeanByKey(landscape_grouped,
                         {i \in LandscapeSlice : Values(Landscape)[i] \in 1..4},
                         [i \in 1..Len(sla_pso_df.rows) |-> LabelOf(i)])
    /\ Printed("No data found", "Landscape Variation") =>
          LandscapeSlice = {} /\ \A p \in LandscapePlots : ~Called(p)
    /\ pc = "done" =>
          \/ Printed("No data found", "Landscape Variation")
          \/ \A p \in LandscapePlots : Called(p) /\ plot_path(p) \in files

\* C9 witness: a landscape slice whose rows all have unmapped codes went
\* through the three plots with an empty category list.
C9_Witness ==
    /\ pc = "done"
    /\ LandscapeSlice # {}
    /\ \A i \in LandscapeSlice : LabelOf(i) = Unknown
    /\ Categories = <<>>
    /\ \A p \in LandscapePlots : Called(p)

\* The filtered table as computed from the file alone.
CleanTable ==
    add_landscape_desc(filter_algorithm(dropna(coerce_numeric(
        strip_columns(read_csv(csv))))))

\* C10: once created, the filtered table is never changed by an analysis,
\* and each analysis selects its slice from the table as it was created,
\* whatever the other analyses did.
C10_FilteredTableReadOnly ==
    [][Created =>
         /\ sla_pso_df' = sla_pso_df
         /\ sla_pso_df = CleanTable
         /\ pc = "vm_scaling" =>
               vm_scaling_data' = vm_scaling_select(CleanTable)
         /\ pc = "host_scaling" =>
               host_scaling_data' = host_scaling_select(CleanTable)
         /\ pc = "landscape" =>
               Labels(landscape_variation_data') =
                  Labels(landscape_select(CleanTable))]_vars

\* C10 witness: the landscape analysis rewrote and re-sorted its copy, and
\* the run went on to the end.
C10_Witness ==
    /\ pc = "done"
    /\ Called("landscape_boxplot")
    /\ landscape_variation_data.rows # landscape_select(sla_pso_df).rows
    /\ landscape_variation_data.dtypes # sla_pso_df.dtypes
====
